---- MODULE Spec2Model ----
(***************************************************************************)
(* State-machine model of src/doubleSlit.py: the waveFunction density      *)
(* model and the doubleSlit detector that owns one.                        *)
(*                                                                         *)
(* Python floats are modelled as records: a finite value is kept as a      *)
(* fixed-point integer in thousandths ([k |-> "fin", v |-> 1500] is 1.5),  *)
(* and the IEEE specials nan and +/-inf are kept as such, with the         *)
(* arithmetic numpy applies to them (x/0 = inf, 0/0 = nan, cos(inf) = nan, *)
(* nan != nan).  The module-wide random generator is modelled by drawing   *)
(* every sample nondeterministically from a small representative set.      *)
(***************************************************************************)
EXTENDS Integers, Sequences, FiniteSets, TLC

VARIABLES slit_dist, distance_to_screen, measure_slit,
          screen_width, screen_height,
          detections_x, detections_y, wavefunction,
          op, result, drawn

vars == <<slit_dist, distance_to_screen, measure_slit, screen_width,
          screen_height, detections_x, detections_y, wavefunction,
          op, result, drawn>>

(***************************************************************************)
(* Bounds of the model.                                                    *)
(***************************************************************************)
\* Longest detection log explored.
MaxLog == 2
\* Largest num_electrons passed to electron_beam.
MaxBeam == 2
\* Number of support points of the continuous grid explored (the source
\* builds the same grid with num=1000).
NumPoints == 3
\* Number of points of the per-bin refinement grid explored (num=100 in the
\* source).
SubPoints == 3

(***************************************************************************)
(* Floats.                                                                 *)
(***************************************************************************)
Fin(n) == [k |-> "fin", v |-> n]
NaN == [k |-> "nan", v |-> 0]
\* The float with integer value n.
F(n) == Fin(n * 1000)

Sign(n) == IF n < 0 THEN -1 ELSE IF n > 0 THEN 1 ELSE 0
Abs(n) == IF n < 0 THEN -n ELSE n

\* Python's a != b on floats: nan differs from everything, itself included.
Neq(a, b) == a.k = "nan" \/ b.k = "nan" \/ a # b

FNeg(a) == IF a.k = "nan" THEN NaN ELSE [k |-> a.k, v |-> -a.v]

FAdd(a, b) ==
  IF a.k = "nan" \/ b.k = "nan" THEN NaN
  ELSE IF a.k = "inf" /\ b.k = "inf" THEN (IF a.v = b.v THEN a ELSE NaN)
  ELSE IF a.k = "inf" THEN a
  ELSE IF b.k = "inf" THEN b
  ELSE Fin(a.v + b.v)

FMul(a, b) ==
  IF a.k = "nan" \/ b.k = "nan" THEN NaN
  ELSE IF a.k = "inf" \/ b.k = "inf"
    THEN (IF a.v = 0 \/ b.v = 0 THEN NaN
          ELSE [k |-> "inf", v |-> Sign(a.v) * Sign(b.v)])
  ELSE Fin((a.v * b.v) \div 1000)

\* numpy's true division: a finite value over zero is +/-inf, 0/0 is nan.
FDiv(a, b) ==
  IF a.k = "nan" \/ b.k = "nan" THEN NaN
  ELSE IF a.k = "inf"
    THEN (IF b.k = "inf" THEN NaN
          ELSE [k |-> "inf", v |-> a.v * (IF b.v < 0 THEN -1 ELSE 1)])
  ELSE IF b.k = "inf" THEN Fin(0)
  ELSE IF b.v = 0
    THEN (IF a.v = 0 THEN NaN ELSE [k |-> "inf", v |-> Sign(a.v)])
  ELSE Fin((a.v * 1000) \div b.v)

\* cos(pi*u) for u in thousandths, |u| <= 500 (Bhaskara's rational
\* approximation, exact at 0, 1/3 and 1/2), in thousandths.
CosPiCore(u) == ((1000000 - 4 * u * u) * 1000) \div (1000000 + u * u)

\* cos(pi*u) for any finite u in thousandths.
CosPi(u) ==
  LET r == ((u + 1000) % 2000) - 1000
  IN  IF Abs(r) <= 500 THEN CosPiCore(r) ELSE -CosPiCore(Abs(r) - 1000)

\* np.cos(np.pi * t)**2
CosPiSq(t) ==
  IF t.k # "fin" THEN NaN
  ELSE Fin((CosPi(t.v) * CosPi(t.v)) \div 1000)

\* np.tan(a), a in radians.
FTan(a) ==
  IF a.k # "fin" THEN NaN
  ELSE LET u == (a.v * 1000) \div 3142
       IN  FDiv(Fin(CosPi(u - 500)), Fin(CosPi(u)))

(***************************************************************************)
(* numpy / scipy helpers.                                                  *)
(***************************************************************************)
\* np.linspace(lo, hi, num=n) for finite lo, hi.
linspace(lo, hi, n) ==
  [i \in 1..n |-> Fin(lo.v + ((i - 1) * (hi.v - lo.v)) \div (n - 1))]

RECURSIVE FSum(_)
\* sum(s)
FSum(s) == IF s = <<>> THEN Fin(0) ELSE FAdd(Head(s), FSum(Tail(s)))

\* scipy.integrate.trapezoid(ys, xs)
trapezoid(ys, xs) ==
  FSum([i \in 1..(Len(xs) - 1) |->
          FDiv(FMul(FAdd(xs[i + 1], FNeg(xs[i])), FAdd(ys[i], ys[i + 1])),
               F(2))])

(***************************************************************************)
(* class waveFunction                                                      *)
(***************************************************************************)
\* waveFunction.evaluate_unnormalized at one point x.
evaluate_unnormalized(d, L, x) == CosPiSq(FDiv(FMul(d, x), L))

\* waveFunction.evaluate at one point x of a model with the given norm.
evaluate(d, L, m, norm, x) ==
  IF ~m THEN FDiv(evaluate_unnormalized(d, L, x), norm)
  ELSE IF x = FDiv(FMul(F(-1), d), F(2)) /\ x.k # "nan" THEN Fin(500)
  ELSE IF x = FDiv(d, F(2)) /\ x.k # "nan" THEN Fin(500)
  ELSE Fin(0)

\* waveFunction.__init__
waveFunction(d, L, m) ==
  IF ~m THEN
    LET values == linspace(F(-10), F(10), NumPoints)
        norm == trapezoid([i \in 1..NumPoints |->
                             evaluate_unnormalized(d, L, values[i])], values)
        bin(i) == LET sub == linspace(values[i], values[i + 1], SubPoints)
                  IN  trapezoid([j \in 1..SubPoints |->
                                   evaluate(d, L, m, norm, sub[j])], sub)
        raw == <<Fin(0)>> \o [i \in 1..(NumPoints - 1) |-> bin(i)]
        total == FSum(raw)
    IN  [d |-> d, distance_to_screen |-> L, measure_slit |-> m,
         values |-> values, norm |-> norm,
         probs |-> [i \in 1..NumPoints |-> FDiv(raw[i], total)]]
  ELSE
    [d |-> d, distance_to_screen |-> L, measure_slit |-> m,
     values |-> <<FDiv(FMul(F(-1), d), F(2)), FDiv(d, F(2))>>,
     norm |-> F(1),
     probs |-> <<Fin(500), Fin(500)>>]

\* np.random.choice(self.values, p=self.probs) raises ValueError
\* ("probabilities contain NaN", "... are not non-negative", "... do not sum
\* to 1") before drawing anything unless the weights contain no nan, are
\* nonnegative and sum to 1 within a rounding tolerance; otherwise it returns
\* an entry of positive weight.
ChoiceOK(wf) ==
  /\ \A i \in 1..Len(wf.probs) : wf.probs[i].k = "fin" /\ wf.probs[i].v >= 0
  /\ Abs(FSum(wf.probs).v - 1000) <= Len(wf.probs)

ChoiceSet(wf) == {i \in 1..Len(wf.values) : wf.probs[i].v > 0}

\* Representative outcomes of np.random.normal(scale=0.2),
\* np.random.uniform(low=-0.01, high=0.01) and np.random.normal(scale=1.7);
\* the sampled position still varies with the support point drawn.
SlitJitter == {Fin(200)}
ScreenJitter == {Fin(10)}
GaussY == {Fin(-1700), Fin(1700)}

\* The random outcomes one call of measure() consumes.
MeasureDraws(wf) ==
  [idx : ChoiceSet(wf),
   jit : IF wf.measure_slit THEN SlitJitter ELSE ScreenJitter]

\* waveFunction.measure, given the random outcomes r it draws.
measure(wf, r) ==
  LET temp_value == wf.values[r.idx]
  IN  FAdd(temp_value, r.jit)

(***************************************************************************)
(* class doubleSlit                                                        *)
(***************************************************************************)
\* Variant of the staleness check that lost its elif branch.
StaleCheck_slit_only ==
  IF Neq(slit_dist, wavefunction.d) THEN "stale_slit_dist" ELSE "ok"

\* The staleness check at the head of fire_electron and electron_beam.
StaleCheck ==
  IF Neq(slit_dist, wavefunction.d) THEN "stale_slit_dist"
  ELSE IF Neq(distance_to_screen, wavefunction.distance_to_screen)
    THEN "stale_distance_to_screen"
  ELSE "ok"

StaleErrors == {"stale_slit_dist", "stale_distance_to_screen"}

\* The random outcomes one successful fire_electron consumes, in order.
Shots == [first : MeasureDraws(wavefunction),
          second : MeasureDraws(wavefunction),
          y : GaussY]

\* Variant of fire_electron that records the tan-scaled first draw.
fire_electron_tan(st, shot) ==
  IF StaleCheck # "ok" THEN [st EXCEPT !.result = StaleCheck]
  ELSE IF ~ChoiceOK(wavefunction) THEN [st EXCEPT !.result = "choice_error"]
  ELSE LET first == measure(wavefunction, shot.first)
           detected_x == FMul(distance_to_screen, FTan(first))
           second == measure(wavefunction, shot.second)
       IN  [x |-> Append(st.x, detected_x),
            y |-> Append(st.y, shot.y),
            drawn |-> st.drawn \o <<[kind |-> "measure", value |-> first],
                                    [kind |-> "measure", value |-> second],
                                    [kind |-> "normal", value |-> shot.y]>>,
            result |-> "ok"]

\* Variant of fire_electron that records x but not y.
fire_electron_no_y(st, shot) ==
  IF StaleCheck # "ok" THEN [st EXCEPT !.result = StaleCheck]
  ELSE IF ~ChoiceOK(wavefunction) THEN [st EXCEPT !.result = "choice_error"]
  ELSE LET first == measure(wavefunction, shot.first)
           second == measure(wavefunction, shot.second)
       IN  [x |-> Append(st.x, second),
            y |-> st.y,
            drawn |-> st.drawn \o <<[kind |-> "measure", value |-> first],
                                    [kind |-> "measure", value |-> second]>>,
            result |-> "ok"]

\* Body of fire_electron on the log st = [x, y, drawn, result], given the
\* random outcomes shot; an exception leaves st as it was and is kept in
\* st.result.
fire_electron(st, shot) ==
  IF StaleCheck # "ok" THEN [st EXCEPT !.result = StaleCheck]
  ELSE IF ~ChoiceOK(wavefunction) THEN [st EXCEPT !.result = "choice_error"]
  ELSE LET first == measure(wavefunction, shot.first)
           detected_x == FMul(distance_to_screen, FTan(first))
           second == measure(wavefunction, shot.second)
       IN  [x |-> Append(st.x, second),
            y |-> Append(st.y, shot.y),
            drawn |-> st.drawn \o <<[kind |-> "measure", value |-> first],
                                    [kind |-> "measure", value |-> second],
                                    [kind |-> "normal", value |-> shot.y]>>,
            result |-> "ok"]

RECURSIVE beam_loop(_, _)
\* for i in range(num_electrons): self.fire_electron()
beam_loop(st, shots) ==
  IF shots = <<>> THEN st
  ELSE LET nxt == fire_electron(st, Head(shots))
       IN  IF nxt.result # "ok" THEN nxt ELSE beam_loop(nxt, Tail(shots))

\* Body of electron_beam.
electron_beam(st, shots) ==
  IF StaleCheck # "ok" THEN [st EXCEPT !.result = StaleCheck]
  ELSE beam_loop(st, shots)

\* The log as a call finds it; op, result and drawn record the last call made,
\* how it ended ("ok" or the exception raised) and the samples it drew.
Log == [x |-> detections_x, y |-> detections_y, drawn |-> <<>>,
        result |-> "ok"]

\* A call that raises consumes no random outcome.
NoShot == [first |-> [idx |-> 1, jit |-> Fin(0)],
           second |-> [idx |-> 1, jit |-> Fin(0)], y |-> Fin(0)]

CanDetect == StaleCheck = "ok" /\ ChoiceOK(wavefunction)

ShotSeqs(n) == IF CanDetect THEN [1..n -> Shots] ELSE {[i \in 1..n |-> NoShot]}

Config == <<slit_dist, distance_to_screen, measure_slit, screen_width,
            screen_height>>

Return(st) ==
  /\ detections_x' = st.x
  /\ detections_y' = st.y
  /\ drawn' = st.drawn
  /\ result' = st.result

\* Variant of fire_electron that rebuilds a stale model instead of raising.
FireElectron_rebuild ==
  /\ wavefunction' = waveFunction(slit_dist, distance_to_screen, measure_slit)
  /\ UNCHANGED <<Config, detections_x, detections_y>>
  /\ op' = [name |-> "fire_electron", n |-> 1]
  /\ result' = "ok"
  /\ drawn' = <<>>

FireElectron ==
  \* Bound of the model: the log grows to MaxLog entries at most.
  /\ CanDetect => Len(detections_x) < MaxLog
  /\ \E shots \in ShotSeqs(1) : Return(fire_electron(Log, shots[1]))
  /\ op' = [name |-> "fire_electron", n |-> 1]
  /\ UNCHANGED <<Config, wavefunction>>

ElectronBeam ==
  \E num_electrons \in 0..MaxBeam :
    \* Bound of the model: the log grows to MaxLog entries at most.
    /\ CanDetect => Len(detections_x) + num_electrons <= MaxLog
    /\ \E shots \in ShotSeqs(num_electrons) : Return(electron_beam(Log, shots))
    /\ op' = [name |-> "electron_beam", n |-> num_electrons]
    /\ UNCHANGED <<Config, wavefunction>>

ShowScreen ==
  /\ op' = [name |-> "show_screen", n |-> 0]
  /\ result' = "ok"
  /\ drawn' = <<>>
  /\ UNCHANGED <<Config, detections_x, detections_y, wavefunction>>

ShowHist ==
  /\ op' = [name |-> "show_hist", n |-> 0]
  /\ result' = "ok"
  /\ drawn' = <<>>
  /\ UNCHANGED <<Config, detections_x, detections_y, wavefunction>>

ClearScreen ==
  /\ detections_x' = <<>>
  /\ detections_y' = <<>>
  /\ wavefunction' = waveFunction(slit_dist, distance_to_screen, measure_slit)
  /\ op' = [name |-> "clear_screen", n |-> 0]
  /\ result' = "ok"
  /\ drawn' = <<>>
  /\ UNCHANGED Config

SlitInputs == {F(1), F(2), NaN}
DistInputs == {F(0), F(10)}

Init ==
  /\ slit_dist \in SlitInputs
  /\ distance_to_screen \in DistInputs
  /\ measure_slit \in BOOLEAN
  /\ screen_width = 200
  /\ screen_height = 100
  /\ detections_x = <<>>
  /\ detections_y = <<>>
  /\ wavefunction = waveFunction(slit_dist, distance_to_screen, measure_slit)
  /\ op = [name |-> "__init__", n |-> 0]
  /\ result = "ok"
  /\ drawn = <<>>

\* Direct writes of the public configuration fields by the caller.
SetSlitDist ==
  \E v \in SlitInputs :
    /\ slit_dist' = v
    /\ op' = [name |-> "setattr", n |-> 0]
    /\ result' = "ok"
    /\ drawn' = <<>>
    /\ UNCHANGED <<distance_to_screen, measure_slit, screen_width,
                   screen_height, detections_x, detections_y, wavefunction>>

SetDistanceToScreen ==
  \E v \in DistInputs :
    /\ distance_to_screen' = v
    /\ op' = [name |-> "setattr", n |-> 0]
    /\ result' = "ok"
    /\ drawn' = <<>>
    /\ UNCHANGED <<slit_dist, measure_slit, screen_width, screen_height,
                   detections_x, detections_y, wavefunction>>

SetMeasureSlit ==
  \E b \in BOOLEAN :
    /\ measure_slit' = b
    /\ op' = [name |-> "setattr", n |-> 0]
    /\ result' = "ok"
    /\ drawn' = <<>>
    /\ UNCHANGED <<slit_dist, distance_to_screen, screen_width,
                   screen_height, detections_x, detections_y, wavefunction>>

Next ==
  \/ FireElectron
  \/ ElectronBeam
  \/ ShowScreen
  \/ ShowHist
  \/ ClearScreen
  \/ SetSlitDist
  \/ SetDistanceToScreen
  \/ SetMeasureSlit

Spec == Init /\ [][Next]_vars

\* The callers that never write a configuration field directly.
NextNoWrites ==
  \/ FireElectron
  \/ ElectronBeam
  \/ ShowScreen
  \/ ShowHist
  \/ ClearScreen

SpecNoWrites == Init /\ [][NextNoWrites]_vars

(***************************************************************************)
(* Properties.                                                             *)
(***************************************************************************)
IsPrefix(s, t) == Len(s) <= Len(t) /\ SubSeq(t, 1, Len(s)) = s

Detecting(o) == o.name \in {"fire_electron", "electron_beam"}

\* slit_dist or distance_to_screen differs from the value the owned model
\* was built with.
Differs ==
  \/ Neq(slit_dist, wavefunction.d)
  \/ Neq(distance_to_screen, wavefunction.distance_to_screen)

\* C1: whenever slit_dist or distance_to_screen differs from the value
\* stored in the owned wavefunction, a call of fire_electron or of
\* electron_beam(N), for any N, ends in the staleness ValueError and leaves
\* detections_x, detections_y and the wavefunction as they were.
C1_StaleCallRaisesBeforeRecording ==
  [][(Differs /\ Detecting(op'))
       => /\ result' \in StaleErrors
          /\ detections_x' = detections_x
          /\ detections_y' = detections_y
          /\ wavefunction' = wavefunction]_vars

\* A beam fired against a finite but changed distance_to_screen failed with
\* the staleness error while earlier detections were on the log.
C1_Witness ==
  /\ op.name = "electron_beam"
  /\ result = "stale_distance_to_screen"
  /\ distance_to_screen.k = "fin"
  /\ wavefunction.distance_to_screen.k = "fin"
  /\ Len(detections_x) > 0

\* C2: when the configuration is only ever set by the constructor or by
\* clear_screen (no direct field write), no call of fire_electron,
\* electron_beam or clear_screen ends in the staleness error.
C2_NoStalenessWithoutWrites == result \notin StaleErrors

\* C3: clear_screen leaves the log empty and the owned model built from the
\* current slit_dist, distance_to_screen and measure_slit, and a
\* fire_electron issued immediately afterwards succeeds and leaves exactly
\* one detection on the log.
C3_ClearScreenRestoresDetection ==
  [][(op'.name = "clear_screen"
        => (detections_x' = <<>>
            /\ detections_y' = <<>>
            /\ wavefunction'.d = slit_dist'
            /\ wavefunction'.distance_to_screen = distance_to_screen'
            /\ wavefunction'.measure_slit = measure_slit'))
     /\ ((op.name = "clear_screen" /\ op'.name = "fire_electron")
        => (result' = "ok"
            /\ Len(detections_x') = 1
            /\ Len(detections_y') = 1))]_vars

\* C4: no detection is appended to the log while slit_dist,
\* distance_to_screen or measure_slit differs from the corresponding field
\* of the owned model.
C4_NoDetectionOnMismatch ==
  [][Len(detections_x') > Len(detections_x)
       => /\ ~Differs
          /\ measure_slit = wavefunction.measure_slit]_vars

\* C5: with a configuration that matches the owned model,
\* electron_beam(N) appends exactly N detections to the log, and
\* electron_beam(0) leaves the log and the model unchanged.
C5_BeamRecordsExactlyN ==
  [][(~Differs /\ op'.name = "electron_beam")
       => /\ IsPrefix(detections_x, detections_x')
          /\ IsPrefix(detections_y, detections_y')
          /\ Len(detections_x') = Len(detections_x) + op'.n
          /\ Len(detections_y') = Len(detections_y) + op'.n
          /\ wavefunction' = wavefunction]_vars

\* C6: the log is append-only: every step other than clear_screen keeps the
\* recorded entries as a prefix of the new log, only a successful detection
\* makes the log longer, only clear_screen makes it shorter, and
\* detections_x and detections_y always have the same length.
C6_LogAppendOnly ==
  /\ [](Len(detections_x) = Len(detections_y))
  /\ [][(op'.name # "clear_screen"
           => (IsPrefix(detections_x, detections_x')
               /\ IsPrefix(detections_y, detections_y')))
        /\ (Len(detections_x') > Len(detections_x)
           => (Detecting(op') /\ result' = "ok"))
        /\ (Len(detections_x') < Len(detections_x)
           => op'.name = "clear_screen")]_vars

\* A successful beam extended a non-empty log.
C6_Witness ==
  /\ op.name = "electron_beam"
  /\ result = "ok"
  /\ op.n > 0
  /\ Len(detections_x) > op.n

\* C7: the owned model (d, distance_to_screen, measure_slit, values, probs)
\* changes only in clear_screen: fire_electron, electron_beam, the display
\* operations and direct field writes leave it as it was.
C7_ModelRebuiltOnlyByClearScreen ==
  [][op'.name # "clear_screen" => wavefunction' = wavefunction]_vars

\* A detection was recorded and the configuration fields then rewritten, with
\* the model still the one built before.
C7_Witness ==
  /\ op.name = "setattr"
  /\ Len(detections_x) > 0
  /\ slit_dist # wavefunction.d
  /\ measure_slit # wavefunction.measure_slit

\* The weights are a distribution over the support: same length,
\* nonnegative, summing to 1 up to rounding.
ValidDistribution(wf) ==
  /\ Len(wf.probs) = Len(wf.values)
  /\ \A i \in 1..Len(wf.probs) : wf.probs[i].k = "fin" /\ wf.probs[i].v >= 0
  /\ Abs(FSum(wf.probs).v - 1000) <= Len(wf.probs)

\* C8: in every state the owned model's weights are a valid distribution
\* aligned with its support; in collapsed mode the support is -d/2, +d/2
\* with weights 0.5, 0.5, and in continuous mode the leftmost support point
\* has weight 0.
C8_WeightsAreDistribution ==
  /\ ValidDistribution(wavefunction)
  /\ wavefunction.measure_slit
       => /\ wavefunction.values = <<FDiv(FNeg(wavefunction.d), F(2)),
                                     FDiv(wavefunction.d, F(2))>>
          /\ wavefunction.probs = <<Fin(500), Fin(500)>>
  /\ ~wavefunction.measure_slit
       => /\ Len(wavefunction.values) = NumPoints
          /\ wavefunction.probs[1] = Fin(0)

\* slit_separation and screen_distance finite, screen_distance nonzero.
ValidConfig(d, L) == d.k = "fin" /\ L.k = "fin" /\ L.v # 0

\* C9: construction with screen_distance 0 or with a non-finite
\* slit_separation or screen_distance fails, so no constructed detector
\* owns a model with such a configuration.
C9_InvalidConfigurationRejected ==
  ValidConfig(wavefunction.d, wavefunction.distance_to_screen)

\* C10: a successful fire_electron draws two positions from the model and
\* then one Gaussian y, in that order, and records the raw second position
\* as x (not the first one, nor its tan-scaled value) and the Gaussian as y.
C10_TwoDrawsSecondRecorded ==
  (op.name = "fire_electron" /\ result = "ok")
    => /\ Len(drawn) = 3
       /\ drawn[1].kind = "measure"
       /\ drawn[2].kind = "measure"
       /\ drawn[3].kind = "normal"
       /\ detections_x[Len(detections_x)] = drawn[2].value
       /\ detections_y[Len(detections_y)] = drawn[3].value
       /\ detections_x[Len(detections_x)]
            # FMul(distance_to_screen, FTan(drawn[1].value))

\* A detection whose discarded first draw differs from the recorded second.
C10_Witness ==
  /\ op.name = "fire_electron"
  /\ result = "ok"
  /\ Len(drawn) = 3
  /\ drawn[1].value # drawn[2].value
  /\ detections_x[Len(detections_x)] = drawn[2].value
====
